---------------------------- MODULE Spec2Model ----------------------------
(***************************************************************************)
(* Job Execution Engine of data-synth-be: one batch execution of           *)
(* generate_data_for_job (app/api/endpoints.py), together with the         *)
(* services it calls: run_synthesizer_script, KafkaProducerService and     *)
(* RealDatabaseInserter, and the JobRun row it writes to the metadata      *)
(* store.  Every call that leaves the process (generator subprocess, bus,  *)
(* destination database, metadata store) either returns or raises; which   *)
(* of the two is chosen by the environment.                                *)
(***************************************************************************)
EXTENDS Integers, Sequences, FiniteSets, TLC

\* ------------------------------------------------------------------------
\* Bounds of the model
\* ------------------------------------------------------------------------
\* generationFrequency ranges over -MaxNegTotal .. MaxTotal
MaxTotal == 41
MaxNegTotal == 1
\* the generator delivers what was requested, ShortBy records fewer, or
\* ExtraBy records more
ShortBy == 1
ExtraBy == 1

\* ------------------------------------------------------------------------
\* Program constants
\* ------------------------------------------------------------------------
CHUNK_SIZE == 20
SAMPLE_SIZE == 5
DEFAULT_FREQUENCY == 1
HTTP_500 == 500
HTTP_404 == 404
LATENCY_MIN == 10
LATENCY_MAX == 50

\* ------------------------------------------------------------------------
\* Values
\* ------------------------------------------------------------------------
\* Python None for text columns; Optional values of other types are
\* sequences of length 0 (None) or 1.
None == "None"

Min(a, b) == IF a < b THEN a ELSE b

\* records the generator can produce for the schema {id, name}
RecFull == ("id" :> "u1") @@ ("name" :> "Ann")
RecIdOnly == ("id" :> "u1")
GenRecords == {RecFull, RecIdOnly}

\* further record shapes for the transform: a present field holding null,
\* and a record with none of the mapped fields
RecNullName == ("id" :> "u2") @@ ("name" :> None)
RecOther == ("other" :> "x")

\* JobMapping rows (models.JobMapping): field_mappings is a JSON object,
\* kept as the ordered list of its (schema field, column) items
MapUsers == [table_name |-> "users",
             field_mappings |-> << [field |-> "id", column |-> "user_id"],
                                   [field |-> "name", column |-> "full_name"] >>]
MapNames == [table_name |-> "names",
             field_mappings |-> << [field |-> "name", column |-> "n"] >>]
MappingLists == { <<>>, <<MapUsers>>, <<MapNames, MapUsers>> }

\* further mappings for the transform: two fields sent to one column, no
\* field at all, and a field no record has
MapMerged == [table_name |-> "merged",
              field_mappings |-> << [field |-> "id", column |-> "key"],
                                    [field |-> "name", column |-> "key"] >>]
MapNothing == [table_name |-> "nothing", field_mappings |-> <<>>]
MapEmail == [table_name |-> "mails",
             field_mappings |-> << [field |-> "email", column |-> "mail"],
                                   [field |-> "id", column |-> "user_id"] >>]
Tables == {"users", "names"}

\* simulation_rules: None (<<>>), or <<dict>>; the dict may be empty, may
\* lack generationFrequency, or carry it
RulesDicts ==
    { <<>>, ("eventType" :> 0) }
    \cup { ("eventType" :> 0) @@ ("generationFrequency" :> t) :
              t \in (0 - MaxNegTotal) .. MaxTotal }
SimulationRules == { <<>> } \cup { <<d>> : d \in RulesDicts }

\* ------------------------------------------------------------------------
\* State
\* ------------------------------------------------------------------------
VARIABLES
    db_job,              \* <<>> when the job row is absent, else <<Job>>
    producer,            \* kafka_producer.producer: "None" | "open" | "closed"
    store,               \* committed job_runs rows, by position = run id
    dest,                \* destination database: rows committed per table
    pc,                  \* position of the request in generate_data_for_job
    job_run,             \* the ORM object of this execution (<<>> before line 127)
    remaining_records,
    generated_chunk,
    all_generated_data,
    mi,                  \* index into db_job.mappings inside the chunk
    exc,                 \* the exception in flight (<<>> when none)
    result,              \* what the caller receives
    calls,               \* the calls made to the collaborators, in order
    sse,                 \* the frame of one stream_generator session
    ib,                  \* the frame of one insert_batch call
    tr,                  \* the frame of one pass of the mapping loop body
    ad                   \* two calls of run_synthesizer_script, side by side

\* the state of one execution of generate_data_for_job
batchVars == << db_job, producer, store, dest, pc, job_run, remaining_records,
                generated_chunk, all_generated_data, mi, exc, result, calls >>

\* the frames of the components that are studied on their own
componentVars == << sse, ib, tr, ad >>

vars == << batchVars, componentVars >>

\* a frame that is not in use
NoFrame == <<>>

NoResult == [kind |-> "none"]

Job == db_job[1]

\* ------------------------------------------------------------------------
\* run_synthesizer_script (the Generator Adapter)
\* ------------------------------------------------------------------------
\* what the subprocess call of line 41-42 can do
SubprocessFailures ==
    {"CalledProcessError", "TimeoutExpired", "FileNotFoundError", "JSONDecodeError"}

\* the lists json.loads can return for a request of n records: n records,
\* ShortBy fewer (none when fewer than that were asked for) or ExtraBy more,
\* all of one shape
GenCounts(n) == {IF n > ShortBy THEN n - ShortBy ELSE 0, n, n + ExtraBy}

GenChunks(n) == { [i \in 1 .. c |-> r] : c \in GenCounts(n), r \in GenRecords }

SubprocessOutcomes(n) ==
    { [kind |-> f, records |-> <<>>] : f \in SubprocessFailures }
    \cup { [kind |-> "ok", records |-> ch] : ch \in GenChunks(n) }

\* lines 44, 46: the fixed text of the message
ErrorTemplate(kind) ==
    IF kind = "CalledProcessError"
    THEN "Synthesizer script failed with error: "
    ELSE "An unexpected error occurred while running the synthesizer: "

\* lines 43-46: every failure leaves as a RuntimeError, its message the
\* fixed text followed by e.stderr or str(e)
SynthesizerError(kind) ==
    [type |-> "RuntimeError",
     msg  |-> ErrorTemplate(kind)
              \o (IF kind = "CalledProcessError" THEN "stderr" ELSE kind)]

\* schema is <<>> when db_job.schema_definition is None: schema.fields then
\* raises AttributeError at line 39, inside the try
run_synthesizer_script(schema, out) ==
    IF schema = <<>>
    THEN [raised |-> TRUE, value |-> <<>>, exc |-> SynthesizerError("AttributeError")]
    ELSE IF out.kind = "ok"
    THEN [raised |-> FALSE, value |-> out.records, exc |-> SynthesizerError("")]
    ELSE [raised |-> TRUE, value |-> <<>>, exc |-> SynthesizerError(out.kind)]

\* ------------------------------------------------------------------------
\* KafkaProducerService (the Bus Publisher), a process-wide singleton
\* ------------------------------------------------------------------------
\* what self.producer.send / flush can do: return, raise a KafkaError, or
\* raise anything else
LibrarySendOutcomes == {"ok", "KafkaError", "Exception"}

\* what they can do on the producer as it is: once closed, a producer
\* delivers nothing, its send raises
SendOutcomesOn(prod) ==
    IF prod = "closed" THEN LibrarySendOutcomes \ {"ok"} ELSE LibrarySendOutcomes

\* send(): "True" / "False" returned, "raise" when the exception is not a
\* KafkaError
KafkaSend(prod, out) ==
    IF prod = "None" THEN "False"
    ELSE IF out = "ok" THEN "True"
    ELSE IF out = "KafkaError" THEN "False"
    ELSE "raise"

SendError == [type |-> "Exception", msg |-> "send failed"]

\* close(): the library's close is called only when self.producer is set;
\* the attribute itself is never reset
KafkaCloses(prod) == prod # "None"
KafkaAfterClose(prod) == IF KafkaCloses(prod) THEN "closed" ELSE prod

\* ------------------------------------------------------------------------
\* The field-mapping transform, lines 150-154
\* ------------------------------------------------------------------------
EmptyRow == <<>>

Put(row, c, v) == [x \in (DOMAIN row) \cup {c} |-> IF x = c THEN v ELSE row[x]]

\* Variant of TransformRecord: every mapped column is present in the row, a
\* column whose field is absent from the record holding null.
TransformRecordNullFilled(fm, record) ==
    [c \in { fm[i].column : i \in 1 .. Len(fm) } |->
        LET present == { i \in 1 .. Len(fm) :
                           fm[i].column = c /\ fm[i].field \in DOMAIN record }
        IN  IF present = {} THEN None
            ELSE record[fm[CHOOSE i \in present : \A j \in present : j <= i].field]]

\* {db_column: record.get(schema_field) for schema_field, db_column in
\*  field_mappings.items() if schema_field in record}
RECURSIVE TransformRecord(_, _)
TransformRecord(fm, record) ==
    IF fm = <<>> THEN EmptyRow
    ELSE LET prev == TransformRecord(SubSeq(fm, 1, Len(fm) - 1), record)
             item == fm[Len(fm)]
         IN  IF item.field \in DOMAIN record
             THEN Put(prev, item.column, record[item.field])
             ELSE prev

RECURSIVE TransformChunk(_, _)
TransformChunk(fm, chunk) ==
    IF chunk = <<>> THEN <<>>
    ELSE LET row == TransformRecord(fm, chunk[1])
         IN  (IF DOMAIN row # {} THEN <<row>> ELSE <<>>)
             \o TransformChunk(fm, Tail(chunk))

\* ------------------------------------------------------------------------
\* RealDatabaseInserter.insert_batch (the Destination Inserter)
\* ------------------------------------------------------------------------
InsertOutcomes == {"ok", "SQLAlchemyError"}

\* rows visible in the destination after the call
insert_batch(d, table_name, data, out) ==
    IF data = <<>> THEN d
    ELSE IF out = "ok" THEN [d EXCEPT ![table_name] = @ + Len(data)]
    ELSE d

InsertError == [type |-> "SQLAlchemyError", msg |-> "insert failed"]

\* Variant of insert_raises: a failed insert is swallowed.
insert_never_raises(data, out) == FALSE

\* lines 49-56 of database_inserter.py: the error is re-raised
insert_raises(data, out) == data # <<>> /\ out # "ok"

\* ------------------------------------------------------------------------
\* The metadata store
\* ------------------------------------------------------------------------
DbOutcomes == {"ok", "SQLAlchemyError"}

DbError(what) == [type |-> "SQLAlchemyError", msg |-> what]

\* models.JobRun(job_id=job_id, status="Started") with the column defaults
NewJobRun(id) ==
    [id |-> id, job_id |-> "job", status |-> "Started", finished_at |-> None,
     records_generated |-> 0, avg_latency_ms |-> <<>>, error_message |-> None]

\* ------------------------------------------------------------------------
\* generate_data_for_job, lines 122-177
\* ------------------------------------------------------------------------
Truthy(d) == DOMAIN d # {}

\* line 133
total_records_to_generate(job) ==
    IF job.simulation_rules # <<>> /\ Truthy(job.simulation_rules[1])
    THEN IF "generationFrequency" \in DOMAIN job.simulation_rules[1]
         THEN job.simulation_rules[1]["generationFrequency"]
         ELSE DEFAULT_FREQUENCY
    ELSE DEFAULT_FREQUENCY

\* Variant of LoopCondition: the loop runs until remaining reaches zero.
LoopUntilZero(remaining) == remaining # 0

\* line 139
LoopCondition(remaining) == remaining > 0

\* Variant of records_in_this_chunk: always a full chunk.
FullChunkAlways(remaining) == CHUNK_SIZE

\* line 140
records_in_this_chunk(remaining) == Min(remaining, CHUNK_SIZE)

\* line 160
Decrement(remaining, requested, returned) == remaining - requested

\* line 164, 168
RecordsGenerated(all) == Len(all)

\* line 168
SampleData(all) == SubSeq(all, 1, Min(SAMPLE_SIZE, Len(all)))

\* Variant of HasDestination: the mappings alone decide.
HasMappings(job) == job.mappings # <<>>

\* line 145
HasDestination(job) == job.destination # <<>> /\ job.mappings # <<>>

\* one entry of the call log: op is "generate", "publish", "insert" or
\* "close"; k the chunk; req the count requested (generate); n the number of
\* records returned, published or inserted; err the message of the exception
\* the call raised ("" when it returned)
Call(op, k, req, n, table, ok, err) ==
    [op |-> op, k |-> k, req |-> req, n |-> n, table |-> table, ok |-> ok,
     err |-> err]

CallsOf(op) == SelectSeq(calls, LAMBDA c : c.op = op)

\* number of the chunk being processed
ChunkNo == Len(CallsOf("generate"))

RunId == job_run[1].id

Jobs ==
    [schema_definition : { <<>>, <<"schema">> },
     simulation_rules  : SimulationRules,
     destination       : { <<>>, <<[details |-> "dsn"]>> },
     mappings          : MappingLists]

\* The state when a request for /jobs/{job_id}/generate arrives: the
\* singleton producer as KafkaProducerService.__init__ left it (lines 15-30),
\* an empty job_runs table and an empty destination.
Init ==
    /\ db_job \in { <<>> } \cup { <<j>> : j \in Jobs }
    /\ producer \in {"None", "open"}
    /\ store = <<>>
    /\ dest = [t \in Tables |-> 0]
    /\ pc = "query"
    /\ job_run = <<>>
    /\ remaining_records = 0
    /\ generated_chunk = <<>>
    /\ all_generated_data = <<>>
    /\ mi = 0
    /\ exc = <<>>
    /\ result = NoResult
    /\ calls = <<>>
    /\ sse = NoFrame
    /\ ib = NoFrame
    /\ tr = NoFrame
    /\ ad = NoFrame

\* Variant of QueryJob: the chunk loop is entered straight after the lookup,
\* the run record being left for later.
QueryJobSkipsRun ==
    /\ pc = "query"
    /\ IF db_job = <<>>
       THEN /\ result' = [kind |-> "HTTPException", status_code |-> HTTP_404,
                          detail |-> "Job not found"]
            /\ pc' = "done"
       ELSE /\ pc' = "generate"
            /\ UNCHANGED result
    /\ UNCHANGED componentVars
    /\ UNCHANGED << db_job, producer, store, dest, job_run, remaining_records,
                    generated_chunk, all_generated_data, mi, exc, calls >>

\* lines 123-125
QueryJob ==
    /\ pc = "query"
    /\ IF db_job = <<>>
       THEN /\ result' = [kind |-> "HTTPException", status_code |-> HTTP_404,
                          detail |-> "Job not found"]
            /\ pc' = "done"
       ELSE /\ pc' = "create"
            /\ UNCHANGED result
    /\ UNCHANGED componentVars
    /\ UNCHANGED << db_job, producer, store, dest, job_run, remaining_records,
                    generated_chunk, all_generated_data, mi, exc, calls >>

\* lines 127-130 and, once the run exists, 133-138.  These lines are outside
\* the try: an error of commit or refresh leaves the function at once.
CreateRun ==
    /\ pc = "create"
    /\ \E c \in DbOutcomes, r \in DbOutcomes :
         LET row == NewJobRun(Len(store) + 1)
         IN  IF c # "ok"
             THEN /\ store' = store
                  /\ job_run' = <<row>>
                  /\ result' = [kind |-> "Exception", detail |-> "commit failed"]
                  /\ pc' = "done"
                  /\ UNCHANGED remaining_records
             ELSE /\ store' = Append(store, row)
                  /\ job_run' = <<row>>
                  /\ IF r # "ok"
                     THEN /\ result' = [kind |-> "Exception", detail |-> "refresh failed"]
                          /\ pc' = "done"
                          /\ UNCHANGED remaining_records
                     ELSE /\ remaining_records' = total_records_to_generate(Job)
                          /\ pc' = "loop"
                          /\ UNCHANGED result
    /\ UNCHANGED componentVars
    /\ UNCHANGED << db_job, producer, dest, generated_chunk, all_generated_data,
                    mi, exc, calls >>

\* line 139
LoopTest ==
    /\ pc = "loop"
    /\ pc' = IF LoopCondition(remaining_records) THEN "generate" ELSE "finish"
    /\ UNCHANGED componentVars
    /\ UNCHANGED << db_job, producer, store, dest, job_run, remaining_records,
                    generated_chunk, all_generated_data, mi, exc, result, calls >>

\* lines 140-141
Generate ==
    /\ pc = "generate"
    /\ LET n == records_in_this_chunk(remaining_records)
       IN  \E out \in SubprocessOutcomes(n) :
             LET r == run_synthesizer_script(Job.schema_definition, out)
             IN  /\ calls' = Append(calls, Call("generate", ChunkNo + 1, n,
                                                Len(r.value), "", ~r.raised,
                                                IF r.raised THEN r.exc.msg ELSE ""))
                 /\ IF r.raised
                    THEN /\ exc' = <<r.exc>>
                         /\ pc' = "except"
                         /\ UNCHANGED generated_chunk
                    ELSE /\ generated_chunk' = r.value
                         /\ pc' = "publish"
                         /\ UNCHANGED exc
    /\ UNCHANGED componentVars
    /\ UNCHANGED << db_job, producer, store, dest, job_run, remaining_records,
                    all_generated_data, mi, result >>

\* line 143
Publish ==
    /\ pc = "publish"
    /\ \E out \in SendOutcomesOn(producer) :
         LET r == KafkaSend(producer, out)
         IN  /\ calls' = Append(calls, Call("publish", ChunkNo, 0,
                                            Len(generated_chunk), "", r = "True",
                                            IF r = "raise" THEN SendError.msg ELSE ""))
             /\ IF r = "raise"
                THEN /\ exc' = <<SendError>>
                     /\ pc' = "except"
                     /\ UNCHANGED mi
                ELSE /\ mi' = 1
                     /\ pc' = "insert"
                     /\ UNCHANGED exc
    /\ UNCHANGED componentVars
    /\ UNCHANGED << db_job, producer, store, dest, job_run, remaining_records,
                    generated_chunk, all_generated_data, result >>

\* lines 145-157, one mapping per step
Insert ==
    /\ pc = "insert"
    /\ IF ~HasDestination(Job) \/ mi > Len(Job.mappings)
       THEN /\ pc' = "extend"
            /\ UNCHANGED << dest, mi, exc, calls >>
       ELSE LET mapping == Job.mappings[mi]
                transformed_chunk ==
                    TransformChunk(mapping.field_mappings, generated_chunk)
            IN  IF transformed_chunk = <<>>
                THEN /\ mi' = mi + 1
                     /\ UNCHANGED << dest, pc, exc, calls >>
                ELSE \E out \in InsertOutcomes :
                       /\ dest' = insert_batch(dest, mapping.table_name,
                                               transformed_chunk, out)
                       /\ calls' = Append(calls,
                                     Call("insert", ChunkNo, 0, Len(transformed_chunk),
                                          mapping.table_name, out = "ok",
                                          IF out = "ok" THEN "" ELSE InsertError.msg))
                       /\ IF insert_raises(transformed_chunk, out)
                          THEN /\ exc' = <<InsertError>>
                               /\ pc' = "except"
                               /\ UNCHANGED mi
                          ELSE /\ mi' = mi + 1
                               /\ UNCHANGED << pc, exc >>
    /\ UNCHANGED componentVars
    /\ UNCHANGED << db_job, producer, store, job_run, remaining_records,
                    generated_chunk, all_generated_data, result >>

\* Variant of ExtendAndDecrement: the chunk replaces the accumulated list
\* instead of extending it.
ExtendOverwrites ==
    /\ pc = "extend"
    /\ all_generated_data' = generated_chunk
    /\ remaining_records' = Decrement(remaining_records,
                                      records_in_this_chunk(remaining_records),
                                      Len(generated_chunk))
    /\ pc' = "loop"
    /\ UNCHANGED componentVars
    /\ UNCHANGED << db_job, producer, store, dest, job_run, generated_chunk,
                    mi, exc, result, calls >>

\* lines 159-160
ExtendAndDecrement ==
    /\ pc = "extend"
    /\ all_generated_data' = all_generated_data \o generated_chunk
    /\ remaining_records' = Decrement(remaining_records,
                                      records_in_this_chunk(remaining_records),
                                      Len(generated_chunk))
    /\ pc' = "loop"
    /\ UNCHANGED componentVars
    /\ UNCHANGED << db_job, producer, store, dest, job_run, generated_chunk,
                    mi, exc, result, calls >>

\* lines 162-165
FinishedRun(run, all, latency) ==
    [run EXCEPT !.status = "Finished",
                !.finished_at = "utcnow",
                !.records_generated = RecordsGenerated(all),
                !.avg_latency_ms = <<latency>>]

\* line 168
SuccessResponse(run, all) ==
    [kind |-> "response", job_run_id |-> run.id, status |-> "Success",
     records_generated |-> RecordsGenerated(all), sample_data |-> SampleData(all)]

\* lines 162-168.  A failed commit rolls the session back: the pending
\* changes of job_run are discarded and the row keeps its committed values.
Finish ==
    /\ pc = "finish"
    /\ \E latency \in {LATENCY_MIN, LATENCY_MAX}, c \in DbOutcomes, r \in DbOutcomes :
         LET updated == FinishedRun(job_run[1], all_generated_data, latency)
         IN  IF c # "ok"
             THEN /\ job_run' = <<store[RunId]>>
                  /\ exc' = <<DbError("commit failed")>>
                  /\ pc' = "except"
                  /\ UNCHANGED << store, result >>
             ELSE /\ store' = [store EXCEPT ![RunId] = updated]
                  /\ job_run' = <<updated>>
                  /\ IF r # "ok"
                     THEN /\ exc' = <<DbError("refresh failed")>>
                          /\ pc' = "except"
                          /\ UNCHANGED result
                     ELSE /\ result' = SuccessResponse(updated, all_generated_data)
                          /\ pc' = "finally"
                          /\ UNCHANGED exc
    /\ UNCHANGED componentVars
    /\ UNCHANGED << db_job, producer, dest, remaining_records, generated_chunk,
                    all_generated_data, mi, calls >>

\* Variant of FailedRun: the message is not stored.
FailedRunNoMessage(run, error_message) ==
    [run EXCEPT !.status = "Failed",
                !.finished_at = "utcnow"]

\* lines 170-173
FailedRun(run, error_message) ==
    [run EXCEPT !.status = "Failed",
                !.finished_at = "utcnow",
                !.error_message = error_message]

\* line 175
ErrorResponse(run, error_message) ==
    [kind |-> "HTTPException", status_code |-> HTTP_500, detail |-> error_message]

\* lines 169-175.  When the commit of line 174 raises, that error leaves
\* the handler instead of the HTTPException.
Except ==
    /\ pc = "except"
    /\ \E c \in DbOutcomes :
         LET error_message == exc[1].msg
             updated == FailedRun(job_run[1], error_message)
         IN  IF c # "ok"
             THEN /\ job_run' = <<store[RunId]>>
                  /\ result' = [kind |-> "Exception", detail |-> "commit failed"]
                  /\ UNCHANGED store
             ELSE /\ store' = [store EXCEPT ![RunId] = updated]
                  /\ job_run' = <<updated>>
                  /\ result' = ErrorResponse(updated, error_message)
    /\ pc' = "finally"
    /\ UNCHANGED componentVars
    /\ UNCHANGED << db_job, producer, dest, remaining_records, generated_chunk,
                    all_generated_data, mi, exc, calls >>

\* Variant of Finally: close is called at the end of the try body, so only
\* when the run succeeded.
FinallyOnSuccessOnly ==
    /\ pc = "finally"
    /\ calls' = IF KafkaCloses(producer) /\ result.kind = "response"
                THEN Append(calls, Call("close", ChunkNo, 0, 0, "", TRUE, ""))
                ELSE calls
    /\ producer' = IF result.kind = "response"
                   THEN KafkaAfterClose(producer) ELSE producer
    /\ pc' = "done"
    /\ UNCHANGED componentVars
    /\ UNCHANGED << db_job, store, dest, job_run, remaining_records,
                    generated_chunk, all_generated_data, mi, exc, result >>

\* lines 176-177; the function returns (or the error leaves it) afterwards
Finally ==
    /\ pc = "finally"
    /\ calls' = IF KafkaCloses(producer)
                THEN Append(calls, Call("close", ChunkNo, 0, 0, "", TRUE, ""))
                ELSE calls
    /\ producer' = KafkaAfterClose(producer)
    /\ pc' = "done"
    /\ UNCHANGED componentVars
    /\ UNCHANGED << db_job, store, dest, job_run, remaining_records,
                    generated_chunk, all_generated_data, mi, exc, result >>

Next ==
    \/ QueryJob
    \/ CreateRun
    \/ LoopTest
    \/ Generate
    \/ Publish
    \/ Insert
    \/ ExtendAndDecrement
    \/ Finish
    \/ Except
    \/ Finally

Spec == Init /\ [][Next]_vars

\* ------------------------------------------------------------------------
\* Vocabulary of the properties
\* ------------------------------------------------------------------------
GenCalls == CallsOf("generate")
PublishCalls == CallsOf("publish")
InsertCalls == CallsOf("insert")
CloseCalls == CallsOf("close")

Total == total_records_to_generate(Job)

CeilDiv(a, b) == (a + b - 1) \div b

\* records returned by the generator calls 1 .. k of the execution
RECURSIVE ReturnedUpTo(_)
ReturnedUpTo(k) == IF k <= 0 THEN 0 ELSE GenCalls[k].n + ReturnedUpTo(k - 1)

RECURSIVE RequestedUpTo(_)
RequestedUpTo(k) == IF k <= 0 THEN 0 ELSE GenCalls[k].req + RequestedUpTo(k - 1)

RunCreated == job_run # <<>> /\ Len(store) >= 1 /\ RunId <= Len(store)

\* the execution is inside, or has left through, the try of lines 132-177
EnteredTry ==
    \/ pc \in {"loop", "generate", "publish", "insert", "extend", "finish",
               "except", "finally"}
    \/ pc = "done" /\ (result.kind = "response" \/ exc # <<>>)

Returned == pc = "done"

IsWorkCall(c) == c.op \in {"generate", "publish", "insert"}

\* a generator call, and which one, failed
GeneratorFailed == \E i \in 1 .. Len(calls) : calls[i].op = "generate" /\ ~calls[i].ok
InsertFailed == \E i \in 1 .. Len(calls) : calls[i].op = "insert" /\ ~calls[i].ok
PublishRaised == \E i \in 1 .. Len(calls) : calls[i].op = "publish" /\ calls[i].err # ""
PublishFailed == \E i \in 1 .. Len(calls) : calls[i].op = "publish" /\ ~calls[i].ok

\* position in the call log of the call that raised (0 when none did)
RaisedAt ==
    IF \E i \in 1 .. Len(calls) : calls[i].err # ""
    THEN CHOOSE i \in 1 .. Len(calls) : calls[i].err # ""
    ELSE 0

\* ------------------------------------------------------------------------
\* C1: during every execution for an existing job the JobRun row, status
\* Started, is committed to the metadata store before the first generator
\* call; no generator, publish or insert call is made while the store holds
\* no row for the execution.
\* ------------------------------------------------------------------------
C1_RunCommittedBeforeWork ==
    /\ (\E i \in 1 .. Len(calls) : IsWorkCall(calls[i]))
          => /\ RunCreated
             /\ store[RunId].id = RunId
             /\ store[RunId].job_id = "job"
    /\ pc \in {"generate", "publish", "insert", "extend"}
          => /\ RunCreated
             /\ store[RunId].status = "Started"
             /\ store[RunId].finished_at = None

C1_Witness ==
    /\ pc = "publish"
    /\ Len(GenCalls) = 1
    /\ Len(store) = 1
    /\ store[1].status = "Started"

\* ------------------------------------------------------------------------
\* C2: the i-th generator call requests min(remaining, 20) records, where
\* remaining = total - 20 * (i - 1): no request exceeds 20 or total; and a
\* run whose chunk loop ends without a failed call has made exactly
\* ceil(total / 20) generator calls (none when total = 0) whose requests
\* sum to total, whatever number of records each call returned.
\* ------------------------------------------------------------------------
C2_ChunkRequests ==
    db_job # <<>> =>
        /\ \A i \in 1 .. Len(GenCalls) :
              /\ GenCalls[i].req = Min(Total - CHUNK_SIZE * (i - 1), CHUNK_SIZE)
              /\ GenCalls[i].req >= 1
              /\ GenCalls[i].req <= CHUNK_SIZE
              /\ GenCalls[i].req <= Total
              /\ GenCalls[i].k = i
        /\ (pc = "finish" /\ Total >= 0)
              => /\ Len(GenCalls) = CeilDiv(Total, CHUNK_SIZE)
                 /\ RequestedUpTo(Len(GenCalls)) = Total
                 /\ (Total = 0 => Len(GenCalls) = 0)

\* total = 25: two calls, 20 then 5, neither returning what was asked
C2_Witness ==
    /\ pc = "finish"
    /\ db_job # <<>>
    /\ Total = CHUNK_SIZE + 5
    /\ Len(GenCalls) = 2
    /\ GenCalls[1].req = CHUNK_SIZE /\ GenCalls[1].n # CHUNK_SIZE
    /\ GenCalls[2].req = 5 /\ GenCalls[2].n # 5

\* ------------------------------------------------------------------------
\* C3: on a successful run the committed JobRun.records_generated and the
\* records_generated of the response both equal the sum, over the chunks, of
\* the number of records the generator returned, whatever the publish
\* calls did.
\* ------------------------------------------------------------------------
C3_RecordsGeneratedIsSumReturned ==
    result.kind = "response" =>
        /\ RunCreated
        /\ store[RunId].status = "Finished"
        /\ store[RunId].records_generated = ReturnedUpTo(Len(GenCalls))
        /\ result.records_generated = ReturnedUpTo(Len(GenCalls))
        /\ result.job_run_id = RunId

\* a successful run that returned another number of records than total and
\* had a publish fail
C3_Witness ==
    /\ Returned
    /\ result.kind = "response"
    /\ Len(GenCalls) = 2
    /\ result.records_generated # Total
    /\ result.records_generated > 0
    /\ PublishFailed

\* a commit or refresh of the metadata store raised
StoreRaised ==
    \/ result.kind = "Exception"
    \/ exc # <<>> /\ exc[1].msg \in {"commit failed", "refresh failed"}

\* the caller received the HTTP 500 of line 175
Raised500 == Returned /\ result.kind = "HTTPException" /\ result.status_code = HTTP_500

NoWorkAfter(i) == \A j \in (i + 1) .. Len(calls) : ~IsWorkCall(calls[j])

\* rows committed to table t by the insert calls that returned
RECURSIVE InsertedInto(_, _)
InsertedInto(t, k) ==
    IF k <= 0 THEN 0
    ELSE (IF InsertCalls[k].table = t /\ InsertCalls[k].ok THEN InsertCalls[k].n ELSE 0)
         + InsertedInto(t, k - 1)

\* ------------------------------------------------------------------------
\* C4: when the generator fails on chunk k > 1, the execution ends with the
\* JobRun Failed, its records_generated equal to the number of records that
\* chunks 1 .. k-1 returned, and no generator, publish or insert call after
\* the failed one.  (Stated for the executions whose failure handler
\* committed, line 174.)
\* ------------------------------------------------------------------------
C4_GeneratorFailureKeepsPriorCount ==
    (Raised500 /\ RunCreated /\ GeneratorFailed /\ Len(GenCalls) > 1) =>
        /\ store[RunId].status = "Failed"
        /\ store[RunId].records_generated = ReturnedUpTo(Len(GenCalls) - 1)
        /\ NoWorkAfter(RaisedAt)

\* ------------------------------------------------------------------------
\* C5: when the insert of chunk k fails, the execution ends with the JobRun
\* Failed, its records_generated equal to the number of records chunks
\* 1 .. k returned, no work call after the failed insert, and the rows of
\* the inserts that had returned still in the destination.  (Stated for the
\* executions whose failure handler committed, line 174.)
\* ------------------------------------------------------------------------
C5_InsertFailureKeepsGeneratedCount ==
    (Raised500 /\ RunCreated /\ InsertFailed) =>
        /\ store[RunId].status = "Failed"
        /\ store[RunId].records_generated = ReturnedUpTo(Len(GenCalls))
        /\ NoWorkAfter(RaisedAt)
        /\ \A t \in Tables : dest[t] = InsertedInto(t, Len(InsertCalls))

\* ------------------------------------------------------------------------
\* C6: a publish failure never aborts the run nor changes its accounting:
\* an execution in which every generator call and every insert call
\* returned (and no metadata-store call raised) ends Finished, with
\* records_generated the number of records generated and every chunk
\* generated and published, whatever the publish calls did.
\* ------------------------------------------------------------------------
C6_PublishFailureNotFatal ==
    (Returned /\ EnteredTry /\ ~GeneratorFailed /\ ~InsertFailed /\ ~StoreRaised) =>
        /\ result.kind = "response"
        /\ store[RunId].status = "Finished"
        /\ store[RunId].records_generated = ReturnedUpTo(Len(GenCalls))
        /\ Len(GenCalls) = (IF Total > 0 THEN CeilDiv(Total, CHUNK_SIZE) ELSE 0)
        /\ Len(PublishCalls) = Len(GenCalls)

\* ------------------------------------------------------------------------
\* C7: every JobRun row has a status in {Started, Finished, Failed}, has
\* finished_at set exactly when the status is terminal and error_message
\* set only when it is Failed; and a row whose status is terminal is never
\* changed again (no Finished -> Failed, no Failed -> Finished), also when
\* the final commit or refresh of a successful run raises.
\* ------------------------------------------------------------------------
C7_RowWellFormed ==
    \A i \in 1 .. Len(store) :
        /\ store[i].status \in {"Started", "Finished", "Failed"}
        /\ (store[i].finished_at # None) <=> (store[i].status \in {"Finished", "Failed"})
        /\ (store[i].error_message # None) => (store[i].status = "Failed")

C7_TerminalIsFinal ==
    \A i \in 1 .. Len(store) :
        store[i].status \in {"Finished", "Failed"} => store'[i] = store[i]

C7_RunLifecycle == []C7_RowWellFormed /\ [][C7_TerminalIsFinal]_vars

C9_ResultCarriesRunId ==
    (Returned /\ RunCreated /\ result.kind \in {"response", "HTTPException"}) =>
        /\ "job_run_id" \in DOMAIN result
        /\ result.job_run_id = RunId
        /\ result.kind = "HTTPException" =>
              /\ store[RunId].status = "Failed"
              /\ result.detail = store[RunId].error_message

\* ------------------------------------------------------------------------
\* C10: an execution that has the bus publisher and enters the try of line
\* 132 calls the publisher's close exactly once, whatever its outcome, as
\* its last call before it returns; no publish call follows the close.
\* ------------------------------------------------------------------------
C10_CloseOnceBeforeReturn ==
    (producer # "None" /\ EnteredTry) =>
        /\ Returned => /\ Len(CloseCalls) = 1
                       /\ calls[Len(calls)].op = "close"
                       /\ producer = "closed"
        /\ ~Returned => Len(CloseCalls) = 0
        /\ \A i \in 1 .. Len(calls) :
              calls[i].op = "close" => \A j \in (i + 1) .. Len(calls) : calls[j].op # "publish"

\* an execution failed by an insert error, after a publish, has closed
C10_Witness ==
    /\ Returned
    /\ InsertFailed
    /\ Len(PublishCalls) >= 1
    /\ Len(CloseCalls) = 1
    /\ result.kind = "HTTPException"

\* ------------------------------------------------------------------------
\* C11: an execution whose total is zero or negative makes no generator,
\* publish or insert call and never enters the body of the chunk loop; when
\* its metadata store calls return, it ends with the row Finished,
\* records_generated = 0, and the response carries 0 records and an empty
\* sample.
\* ------------------------------------------------------------------------
C11_NonPositiveTotalDoesNothing ==
    (db_job # <<>> /\ Total <= 0) =>
        /\ \A i \in 1 .. Len(calls) : ~IsWorkCall(calls[i])
        /\ pc \notin {"generate", "publish", "insert", "extend"}
        /\ (Returned /\ EnteredTry /\ ~StoreRaised) =>
              /\ result.kind = "response"
              /\ result.records_generated = 0
              /\ result.sample_data = <<>>
              /\ store[RunId].status = "Finished"
              /\ store[RunId].records_generated = 0

\* an execution with a negative total that has returned its response
C11_Witness ==
    /\ db_job # <<>>
    /\ Total < 0
    /\ Returned
    /\ result.kind = "response"
    /\ store[RunId].status = "Finished"
    /\ Len(calls) = 1

\* ------------------------------------------------------------------------
\* C12: when the job row, or the schema of the job, is absent, the caller
\* receives the 404 of line 125, no JobRun row is committed and no generator,
\* publish or insert call is made.  Executions in which the metadata store
\* raised are left aside, so that what is shown is the handling of the
\* absent schema itself.
\* ------------------------------------------------------------------------
C12_AbsentJobOrSchemaIsNotFound ==
    (Returned /\ ~StoreRaised /\ (db_job = <<>> \/ Job.schema_definition = <<>>)) =>
        /\ result.kind = "HTTPException"
        /\ result.status_code = HTTP_404
        /\ store = <<>>
        /\ \A i \in 1 .. Len(calls) : ~IsWorkCall(calls[i])

\* no call to a collaborator, the metadata store included, has raised
NoCallRaised ==
    /\ ~StoreRaised
    /\ \A i \in 1 .. Len(calls) : calls[i].err = ""

\* the job has no destination, or no mapping
InsertsSwitchedOff == Job.destination = <<>> \/ Job.mappings = <<>>

\* the tables the job has a mapping for
MappedTables == { Job.mappings[m].table_name : m \in 1 .. Len(Job.mappings) }

\* ------------------------------------------------------------------------
\* C14: an execution of a job without destination, or without mapping,
\* makes no insert call and leaves the destination untouched; every insert
\* call of any execution is for a table the job has a mapping for; and an
\* execution without destination or mapping in which no call raises
\* generates every chunk, publishes every generated chunk and ends with the
\* row Finished and records_generated equal to the records the generator
\* returned.
\* ------------------------------------------------------------------------
C14_InsertsOnlyWhereMapped ==
    db_job # <<>> =>
        /\ \A i \in 1 .. Len(InsertCalls) : InsertCalls[i].table \in MappedTables
        /\ \A t \in Tables : dest[t] > 0 => t \in MappedTables
        /\ InsertsSwitchedOff =>
              /\ InsertCalls = <<>>
              /\ \A t \in Tables : dest[t] = 0
              /\ Len(GenCalls) - 1 <= Len(PublishCalls)
              /\ Len(PublishCalls) <= Len(GenCalls)
              /\ (Returned /\ EnteredTry /\ NoCallRaised) =>
                    /\ Len(GenCalls) = (IF Total > 0 THEN CeilDiv(Total, CHUNK_SIZE) ELSE 0)
                    /\ Len(PublishCalls) = Len(GenCalls)
                    /\ \A k \in 1 .. Len(GenCalls) : PublishCalls[k].n = GenCalls[k].n
                    /\ result.kind = "response"
                    /\ store[RunId].status = "Finished"
                    /\ store[RunId].records_generated = ReturnedUpTo(Len(GenCalls))

\* a job with mappings but no destination, run over two chunks to the end
C14_Witness ==
    /\ db_job # <<>>
    /\ Job.destination = <<>>
    /\ Job.mappings # <<>>
    /\ Returned
    /\ result.kind = "response"
    /\ Len(GenCalls) = 2
    /\ Len(PublishCalls) = 2
    /\ InsertCalls = <<>>
    /\ store[RunId].records_generated > CHUNK_SIZE

\* position of table t in db_job.mappings (table names are unique per job,
\* models.py line 78)
MappingIndex(t) ==
    CHOOSE m \in 1 .. Len(Job.mappings) : Job.mappings[m].table_name = t

\* place of a call inside its chunk: generate, publish, then the inserts in
\* mapping order
StepRank(c) ==
    IF c.op = "generate" THEN 0
    ELSE IF c.op = "publish" THEN 1
    ELSE 1 + MappingIndex(c.table)

WorkCallAt(i) == IsWorkCall(calls[i])

\* ------------------------------------------------------------------------
\* C20: the call log of every execution is ordered chunk by chunk and,
\* inside a chunk, generate, then publish, then the inserts in mapping
\* order; an insert of chunk k comes after the publish of chunk k; a
\* generator call for chunk k+1 is made only when every earlier call has
\* returned and every mapping that yields rows for chunk k has had its
\* insert; a failed insert is the last call of the chunk loop, and the rows
\* of the inserts that returned before it stay in the destination.
\* ------------------------------------------------------------------------
C20_StepsOrderedPerChunk ==
    db_job # <<>> =>
        /\ \A i, j \in 1 .. Len(calls) :
              (i < j /\ WorkCallAt(i) /\ WorkCallAt(j)) =>
                  \/ calls[i].k < calls[j].k
                  \/ calls[i].k = calls[j].k /\ StepRank(calls[i]) < StepRank(calls[j])
        /\ \A j \in 1 .. Len(calls) :
              calls[j].op = "insert" =>
                  \E i \in 1 .. (j - 1) :
                      calls[i].op = "publish" /\ calls[i].k = calls[j].k
        /\ \A j \in 1 .. Len(calls) :
              (calls[j].op = "generate" /\ calls[j].k > 1) =>
                  /\ \A i \in 1 .. (j - 1) : calls[i].err = ""
                  /\ \E i \in 1 .. (j - 1) :
                        calls[i].op = "publish" /\ calls[i].k = calls[j].k - 1
        /\ (pc = "extend" /\ ~InsertsSwitchedOff) =>
              \A m \in 1 .. Len(Job.mappings) :
                  TransformChunk(Job.mappings[m].field_mappings, generated_chunk) # <<>> =>
                      \E i \in 1 .. Len(calls) :
                          /\ calls[i].op = "insert"
                          /\ calls[i].k = ChunkNo
                          /\ calls[i].table = Job.mappings[m].table_name
                          /\ calls[i].ok
        /\ \A i \in 1 .. Len(calls) :
              (calls[i].op = "insert" /\ ~calls[i].ok) => NoWorkAfter(i)
        /\ \A t \in Tables : dest[t] = InsertedInto(t, Len(InsertCalls))

\* the insert of the second mapping of the second chunk failed after the
\* insert of the first mapping had committed its rows
C20_Witness ==
    /\ db_job # <<>>
    /\ Returned
    /\ Len(Job.mappings) = 2
    /\ Len(GenCalls) = 2
    /\ Len(InsertCalls) = 4
    /\ ~InsertCalls[4].ok
    /\ InsertCalls[4].table = Job.mappings[2].table_name
    /\ InsertCalls[3].ok
    /\ dest[Job.mappings[1].table_name] > CHUNK_SIZE

\* ------------------------------------------------------------------------
\* The components on their own.  While one of them is studied no request
\* for generate_data_for_job is in progress.
\* ------------------------------------------------------------------------
BatchIdle ==
    /\ db_job = <<>>
    /\ producer = "None"
    /\ store = <<>>
    /\ dest = [t \in Tables |-> 0]
    /\ pc = "done"
    /\ job_run = <<>>
    /\ remaining_records = 0
    /\ generated_chunk = <<>>
    /\ all_generated_data = <<>>
    /\ mi = 0
    /\ exc = <<>>
    /\ result = NoResult
    /\ calls = <<>>

\* ------------------------------------------------------------------------
\* The body of the mapping loop, lines 147-157, for one mapping and one
\* generated chunk
\* ------------------------------------------------------------------------
MaxChunkLen == 2

TransformRecords == {RecFull, RecIdOnly, RecNullName, RecOther}
TransformMappings == {MapUsers, MapNames, MapMerged, MapNothing, MapEmail}

\* all lists of at most n elements of S
RECURSIVE ListsUpTo(_, _)
ListsUpTo(S, n) ==
    IF n = 0 THEN { <<>> }
    ELSE LET shorter == ListsUpTo(S, n - 1)
         IN  shorter \cup { Append(l, x) : l \in { c \in shorter : Len(c) = n - 1 },
                                           x \in S }

ChunksUpTo(n) == ListsUpTo(TransformRecords, n)

\* the frame at line 150: `records` keeps the transformed_record of every
\* iteration of line 152, the empty ones included; `inserts` the calls made
\* to db_inserter.insert_batch
TransformFrame(mapping, chunk) ==
    [pc |-> "record", table_name |-> mapping.table_name,
     field_mappings |-> mapping.field_mappings, generated_chunk |-> chunk,
     transformed_chunk |-> <<>>, records |-> <<>>, inserts |-> <<>>]

InitTransform ==
    /\ BatchIdle
    /\ sse = NoFrame
    /\ ib = NoFrame
    /\ ad = NoFrame
    /\ tr \in { TransformFrame(m, ch) : m \in TransformMappings,
                                         ch \in ChunksUpTo(MaxChunkLen) }

\* lines 151-154, one record per step
TransformOne ==
    /\ tr # NoFrame
    /\ tr.pc = "record"
    /\ LET n == Len(tr.records) + 1
       IN  IF n > Len(tr.generated_chunk)
           THEN tr' = [tr EXCEPT !.pc = "insert"]
           ELSE LET transformed_record ==
                        TransformRecord(tr.field_mappings, tr.generated_chunk[n])
                IN  tr' = [tr EXCEPT
                             !.records = Append(@, transformed_record),
                             !.transformed_chunk =
                                 IF DOMAIN transformed_record # {}
                                 THEN Append(@, transformed_record) ELSE @]
    /\ UNCHANGED << batchVars, sse, ib, ad >>

\* lines 156-157
InsertTransformed ==
    /\ tr # NoFrame
    /\ tr.pc = "insert"
    /\ tr' = [tr EXCEPT
                !.pc = "done",
                !.inserts = IF tr.transformed_chunk # <<>>
                            THEN Append(@, [table_name |-> tr.table_name,
                                            data |-> tr.transformed_chunk])
                            ELSE @]
    /\ UNCHANGED << batchVars, sse, ib, ad >>

NextTransform ==
    \/ TransformOne
    \/ InsertTransformed

SpecTransform == InitTransform /\ [][NextTransform]_vars

\* the pairs of a row
PairsOf(row) == { <<c, row[c]>> : c \in DOMAIN row }

\* the items of a mapping whose field is present in the record
PresentItems(fm, record) == { i \in 1 .. Len(fm) : fm[i].field \in DOMAIN record }

\* the pairs (column -> record[field]) of the mapped fields present
MappedPairs(fm, record) ==
    { <<fm[i].column, record[fm[i].field]>> : i \in PresentItems(fm, record) }

\* the same, a column that several present fields are sent to keeping the
\* value of the last of them in the order of the mapping
LastMappedPairs(fm, record) ==
    { <<fm[i].column, record[fm[i].field]>> :
        i \in { j \in PresentItems(fm, record) :
                  \A l \in PresentItems(fm, record) :
                      fm[l].column = fm[j].column => l <= j } }

\* the non-empty rows among the first n transformed records, in order
NonEmptyRows(rows) == SelectSeq(rows, LAMBDA row : DOMAIN row # {})

\* what lines 147-157 do with the rows, whatever the pairs of a row are: a
\* record yielding no pair gives no row, the other rows are kept in order,
\* and the batch, when not empty, is passed once to the inserter for the
\* table of the mapping
RowsDroppedOrInserted ==
    /\ tr.transformed_chunk = NonEmptyRows(tr.records)
    /\ \A i \in 1 .. Len(tr.records) :
          (DOMAIN tr.records[i] = {}) <=>
              (PresentItems(tr.field_mappings, tr.generated_chunk[i]) = {})
    /\ tr.pc # "done" => tr.inserts = <<>>
    /\ tr.pc = "done" =>
          /\ Len(tr.records) = Len(tr.generated_chunk)
          /\ tr.transformed_chunk =
                 TransformChunk(tr.field_mappings, tr.generated_chunk)
          /\ IF \E i \in 1 .. Len(tr.generated_chunk) :
                    PresentItems(tr.field_mappings, tr.generated_chunk[i]) # {}
             THEN tr.inserts = << [table_name |-> tr.table_name,
                                   data |-> NonEmptyRows(tr.records)] >>
             ELSE tr.inserts = <<>>

\* ------------------------------------------------------------------------
\* C13: for every mapping and every record, the transformed row holds
\* exactly the pairs (column -> record[field]) of the mapped fields present
\* in the record; an absent field gives no pair; a record yielding no pair
\* gives no row; a record with a mapped field present gives a row, passed to
\* the inserter for the table of the mapping.
\* ------------------------------------------------------------------------
C13_RowHasExactlyMappedPairs ==
    tr # NoFrame =>
        /\ \A i \in 1 .. Len(tr.records) :
              PairsOf(tr.records[i]) =
                  MappedPairs(tr.field_mappings, tr.generated_chunk[i])
        /\ RowsDroppedOrInserted

\* C13, amended: as C13, a column that several present fields are mapped to
\* holding the value of the last of those fields.
C13_RowHasLastMappedPairs ==
    tr # NoFrame =>
        /\ \A i \in 1 .. Len(tr.records) :
              PairsOf(tr.records[i]) =
                  LastMappedPairs(tr.field_mappings, tr.generated_chunk[i])
        /\ RowsDroppedOrInserted

\* two fields mapped to one column: a record with both present and a record
\* with neither have been transformed, and one row has been passed on
C13_Witness ==
    /\ tr # NoFrame
    /\ tr.pc = "done"
    /\ tr.table_name = MapMerged.table_name
    /\ tr.generated_chunk = <<RecOther, RecFull>>
    /\ Len(tr.inserts) = 1
    /\ Len(tr.inserts[1].data) = 1

\* ------------------------------------------------------------------------
\* Two requests at once.  generate_data_for_job is a plain `def` endpoint:
\* requests run in different threads of one process and use the one
\* kafka_producer of kafka_producer.py line 56.  The execution followed is
\* the one of the batch variables; of the other request, for another job,
\* what reaches the followed one is its `finally` of lines 176-177.
\* ------------------------------------------------------------------------
MaxTotalConcurrent == 21

InitConcurrent ==
    /\ Init
    /\ db_job # <<>>
    /\ producer = "open"
    /\ total_records_to_generate(Job) <= MaxTotalConcurrent

\* lines 176-177 of the other request: kafka_producer.close()
OtherRunFinally ==
    /\ pc # "done"
    /\ KafkaCloses(producer)
    /\ producer' = KafkaAfterClose(producer)
    /\ UNCHANGED componentVars
    /\ UNCHANGED << db_job, store, dest, pc, job_run, remaining_records,
                    generated_chunk, all_generated_data, mi, exc, result, calls >>

NextConcurrent ==
    \/ Next
    \/ OtherRunFinally

SpecConcurrent == InitConcurrent /\ [][NextConcurrent]_vars

\* ------------------------------------------------------------------------
\* C15: no step of another run changes the result of a publish of this run:
\* whenever this run is about to publish a chunk, the publisher has not been
\* closed (a run closes it only when it returns, after its last publish).
\* ------------------------------------------------------------------------
C15_PublisherUntouchedByOtherRun ==
    pc = "publish" => producer # "closed"

\* ------------------------------------------------------------------------
\* stream_generator, lines 49-74 (the Streaming Engine), served by the
\* StreamingResponse of line 184.  The generator runs inside the event
\* loop: between two suspension points (the yield of line 64, the sleep of
\* line 68) its code is not interrupted, and a consumer that goes away is
\* noticed at a suspension point.
\* ------------------------------------------------------------------------
MaxStreamCalls == 3
MaxStreamFrequency == 2

\* num_records of line 62
STREAM_RECORDS == 1

StreamJobs ==
    { j \in Jobs : /\ j.destination = <<>>
                   /\ j.mappings = <<>>
                   /\ total_records_to_generate(j) <= MaxStreamFrequency }

\* lines 66-67: the delay is 1 / frequency seconds when frequency > 0, else
\* 1 second; kept as the denominator
DelayDenominator(job) ==
    LET frequency == total_records_to_generate(job)
    IN  IF frequency > 0 THEN frequency ELSE 1

\* one server-sent event, line 64
SseEvent(record) == [data |-> record]

\* `disconnected_in` and `mark` remember where the generator was, and what it
\* had done, when the consumer went away
StreamFrame(job) ==
    [pc |-> "query", job |-> job, state |-> "Idle", generated_record |-> <<>>,
     events |-> <<>>, gen_calls |-> <<>>, delay |-> 0, disconnected |-> FALSE,
     disconnected_in |-> "", mark |-> [calls |-> 0, events |-> 0],
     propagated |-> <<>>]

InitStream ==
    /\ BatchIdle
    /\ ib = NoFrame
    /\ tr = NoFrame
    /\ ad = NoFrame
    /\ sse \in { StreamFrame(j) : j \in { <<>> } \cup { <<x>> : x \in StreamJobs } }

\* lines 54-58; the query is outside the try of line 60
StreamQuery ==
    /\ sse # NoFrame
    /\ sse.pc = "query"
    /\ \E out \in DbOutcomes :
         sse' = IF out # "ok"
                THEN [sse EXCEPT !.pc = "closed", !.state = "QueryError",
                                 !.propagated = <<DbError("query failed")>>]
                ELSE IF sse.job = <<>>
                THEN [sse EXCEPT !.pc = "closed", !.state = "NotFound"]
                ELSE [sse EXCEPT !.pc = "call", !.state = "Streaming"]
    /\ UNCHANGED << batchVars, ib, tr, ad >>

\* Variant of StreamCall: a failed generator call is tried again.
StreamCallRetries ==
    /\ sse # NoFrame
    /\ sse.pc = "call"
    /\ Len(sse.gen_calls) < MaxStreamCalls
    /\ \E out \in SubprocessOutcomes(STREAM_RECORDS) :
         LET r == run_synthesizer_script(sse.job[1].schema_definition, out)
             logged == Append(sse.gen_calls, [req |-> STREAM_RECORDS,
                                              ok |-> ~r.raised, value |-> r.value])
         IN  sse' = IF r.raised
                    THEN [sse EXCEPT !.gen_calls = logged]
                    ELSE [sse EXCEPT !.pc = "emit", !.gen_calls = logged,
                                     !.generated_record = r.value]
    /\ UNCHANGED << batchVars, ib, tr, ad >>

\* line 62; a RuntimeError is caught at line 71 and the generator ends
\* through line 74
StreamCall ==
    /\ sse # NoFrame
    /\ sse.pc = "call"
    /\ Len(sse.gen_calls) < MaxStreamCalls
    /\ \E out \in SubprocessOutcomes(STREAM_RECORDS) :
         LET r == run_synthesizer_script(sse.job[1].schema_definition, out)
             logged == Append(sse.gen_calls, [req |-> STREAM_RECORDS,
                                              ok |-> ~r.raised, value |-> r.value])
         IN  sse' = IF r.raised
                    THEN [sse EXCEPT !.pc = "closed", !.state = "Errored",
                                     !.gen_calls = logged]
                    ELSE [sse EXCEPT !.pc = "emit", !.gen_calls = logged,
                                     !.generated_record = r.value]
    /\ UNCHANGED << batchVars, ib, tr, ad >>

\* lines 63-64 and, for an empty list, 66-68
StreamEmit ==
    /\ sse # NoFrame
    /\ sse.pc = "emit"
    /\ sse' = IF sse.generated_record # <<>>
              THEN [sse EXCEPT !.pc = "yielded",
                               !.events = Append(@, SseEvent(sse.generated_record[1]))]
              ELSE [sse EXCEPT !.pc = "sleep",
                               !.delay = DelayDenominator(sse.job[1])]
    /\ UNCHANGED << batchVars, ib, tr, ad >>

\* the consumer takes the event; lines 66-68
StreamResume ==
    /\ sse # NoFrame
    /\ sse.pc = "yielded"
    /\ ~sse.disconnected
    /\ sse' = [sse EXCEPT !.pc = "sleep", !.delay = DelayDenominator(sse.job[1])]
    /\ UNCHANGED << batchVars, ib, tr, ad >>

\* line 68: the sleep is over
StreamWake ==
    /\ sse # NoFrame
    /\ sse.pc = "sleep"
    /\ ~sse.disconnected
    /\ sse' = [sse EXCEPT !.pc = "call"]
    /\ UNCHANGED << batchVars, ib, tr, ad >>

\* the consumer goes away
ConsumerDisconnects ==
    /\ sse # NoFrame
    /\ sse.pc \in {"call", "emit", "yielded", "sleep"}
    /\ ~sse.disconnected
    /\ sse' = [sse EXCEPT !.disconnected = TRUE, !.disconnected_in = sse.pc,
                          !.mark = [calls |-> Len(sse.gen_calls),
                                    events |-> Len(sse.events)]]
    /\ UNCHANGED << batchVars, ib, tr, ad >>

\* Variant of StreamCancelled: the CancelledError is not caught.
StreamCancelledEscapes ==
    /\ sse # NoFrame
    /\ sse.pc = "sleep"
    /\ sse.disconnected
    /\ sse' = [sse EXCEPT !.pc = "closed", !.state = "Errored",
                          !.propagated = <<[type |-> "CancelledError", msg |-> ""]>>]
    /\ UNCHANGED << batchVars, ib, tr, ad >>

\* lines 69-70, 73-74: CancelledError is raised at the await of line 68 and
\* caught
StreamCancelled ==
    /\ sse # NoFrame
    /\ sse.pc = "sleep"
    /\ sse.disconnected
    /\ sse' = [sse EXCEPT !.pc = "closed", !.state = "Cancelled"]
    /\ UNCHANGED << batchVars, ib, tr, ad >>

\* the generator is closed while suspended at the yield of line 64:
\* GeneratorExit passes both except clauses, line 74 runs
StreamAbandoned ==
    /\ sse # NoFrame
    /\ sse.pc = "yielded"
    /\ sse.disconnected
    /\ sse' = [sse EXCEPT !.pc = "closed", !.state = "Exited"]
    /\ UNCHANGED << batchVars, ib, tr, ad >>

NextStream ==
    \/ StreamQuery
    \/ StreamCall
    \/ StreamEmit
    \/ StreamResume
    \/ StreamWake
    \/ ConsumerDisconnects
    \/ StreamCancelled
    \/ StreamAbandoned

SpecStream == InitStream /\ [][NextStream]_vars

\* The event loop throws the CancelledError into the task at its next turn.
SpecStreamFair == SpecStream /\ WF_vars(StreamCancelled)

\* the consumer went away while the generator was in the sleep of line 68
CancelledInDelay ==
    sse # NoFrame /\ sse.disconnected /\ sse.disconnected_in = "sleep"

EndedCancelled ==
    sse # NoFrame /\ sse.pc = "closed" /\ sse.state = "Cancelled"

C16_StoppedAtSuspension ==
    CancelledInDelay =>
        /\ sse.pc \in {"sleep", "closed"}
        /\ Len(sse.gen_calls) = sse.mark.calls
        /\ Len(sse.events) = sse.mark.events
        /\ sse.propagated = <<>>
        /\ sse.pc = "closed" => sse.state = "Cancelled"

\* ------------------------------------------------------------------------
\* C16: once the consumer has gone away while the generator was in the
\* sleep of line 68, no generator call is made and no event is emitted any
\* more, nothing is propagated to the transport, and the session ends, and
\* does end, in the Cancelled state.
\* ------------------------------------------------------------------------
C16_CancelInDelayStopsLoop ==
    /\ []C16_StoppedAtSuspension
    /\ CancelledInDelay ~> EndedCancelled

\* a session that emitted two events and was cancelled in its third delay
C16_Witness ==
    /\ EndedCancelled
    /\ sse.disconnected_in = "sleep"
    /\ Len(sse.events) = 2
    /\ Len(sse.gen_calls) = 3

\* the events owed to the generator calls cs: the first record of every
\* non-empty list returned
RECURSIVE EventsOf(_)
EventsOf(cs) ==
    IF cs = <<>> THEN <<>>
    ELSE (IF cs[1].ok /\ cs[1].value # <<>>
          THEN <<SseEvent(cs[1].value[1])>> ELSE <<>>) \o EventsOf(Tail(cs))

\* the generator calls whose result has passed line 63
HandledCalls ==
    IF sse.pc = "emit"
    THEN SubSeq(sse.gen_calls, 1, Len(sse.gen_calls) - 1)
    ELSE sse.gen_calls

\* ------------------------------------------------------------------------
\* C17: a failed generator call is the last generator call of the session;
\* with it the session is over, in the Errored state, nothing being
\* propagated to the transport; the events emitted are, in order, the first
\* records of the non-empty lists returned by the generator calls that
\* succeeded, each of them a call for one record.
\* ------------------------------------------------------------------------
C17_FirstGeneratorErrorEndsStream ==
    sse # NoFrame =>
        /\ \A i \in 1 .. Len(sse.gen_calls) :
              /\ sse.gen_calls[i].req = 1
              /\ ~sse.gen_calls[i].ok =>
                    /\ i = Len(sse.gen_calls)
                    /\ sse.pc = "closed"
                    /\ sse.state = "Errored"
                    /\ sse.propagated = <<>>
        /\ sse.events = EventsOf(HandledCalls)

\* two events, then the generator failed
C17_Witness ==
    /\ sse # NoFrame
    /\ sse.state = "Errored"
    /\ Len(sse.gen_calls) = 3
    /\ ~sse.gen_calls[3].ok
    /\ Len(sse.events) = 2

\* ------------------------------------------------------------------------
\* run_synthesizer_script on its own: two calls, made for the same number
\* of records, whose subprocess may end in different ways
\* ------------------------------------------------------------------------
AdapterCounts == {STREAM_RECORDS, CHUNK_SIZE}

AdapterFrame(n, first, second) ==
    [num_records |-> n, outcomes |-> <<first, second>>, results |-> <<>>]

InitAdapter ==
    /\ BatchIdle
    /\ sse = NoFrame
    /\ ib = NoFrame
    /\ tr = NoFrame
    /\ \E n \in AdapterCounts :
          ad \in { AdapterFrame(n, o1, o2) : o1 \in SubprocessOutcomes(n),
                                             o2 \in SubprocessOutcomes(n) }

\* lines 36-46, the next of the two calls.  What the caller holds after a
\* failure is the exception: its type and its message, of which `template`
\* is the fixed part.
AdapterCall ==
    /\ ad # NoFrame
    /\ Len(ad.results) < 2
    /\ LET out == ad.outcomes[Len(ad.results) + 1]
           r == run_synthesizer_script(<<"schema">>, out)
       IN  ad' = [ad EXCEPT !.results =
                     Append(@, [cause |-> out.kind, raised |-> r.raised,
                                value |-> r.value, exc |-> r.exc,
                                template |-> ErrorTemplate(out.kind)])]
    /\ UNCHANGED << batchVars, sse, ib, tr >>

NextAdapter == AdapterCall

SpecAdapter == InitAdapter /\ [][NextAdapter]_vars

\* the kind of error a caller is given: the exception type and the fixed
\* text of its message
ErrorKindOf(r) == <<r.exc.type, r.template>>

\* ------------------------------------------------------------------------
\* C18: two calls of the adapter that fail for two different reasons among
\* malformed output, non-zero exit, process not found and timeout give
\* their caller errors of two different kinds.
\* ------------------------------------------------------------------------
C18_FailureKindsDistinguishable ==
    (ad # NoFrame /\ Len(ad.results) = 2) =>
        LET a == ad.results[1]
            b == ad.results[2]
        IN  (a.raised /\ b.raised /\ a.cause # b.cause) =>
                ErrorKindOf(a) # ErrorKindOf(b)

\* ------------------------------------------------------------------------
\* RealDatabaseInserter.insert_batch on its own, database_inserter.py lines
\* 10-63, statement by statement.  `table` is what any other connection
\* sees of the destination table, `pending` what the open transaction has
\* written; `before` and `executed` remember the table as the call found
\* it and the rows line 45 wrote.
\* ------------------------------------------------------------------------
MaxBatchRows == 2

\* rows as the engine passes them
BatchRows ==
    { TransformRecord(MapUsers.field_mappings, r) : r \in {RecFull, RecNullName} }

InsertFrame(data, table) ==
    [pc |-> "entry", data |-> data, table |-> table, before |-> table,
     pending |-> <<>>, executed |-> <<>>, target_engine |-> "None",
     connection |-> "None", transaction |-> "None", exc |-> <<>>,
     result |-> "none"]

InitInsert ==
    /\ BatchIdle
    /\ sse = NoFrame
    /\ tr = NoFrame
    /\ ad = NoFrame
    /\ ib \in { InsertFrame(data, table) :
                  data \in ListsUpTo(BatchRows, MaxBatchRows),
                  table \in ListsUpTo(BatchRows, 1) }

\* what a call to the database library can do
EngineOutcomes == {"ok", "SQLAlchemyError"}

EngineError(what) == [type |-> "SQLAlchemyError", msg |-> what]

\* lines 19-28
InsertEntry ==
    /\ ib # NoFrame
    /\ ib.pc = "entry"
    /\ ib' = IF ib.data = <<>>
             THEN [ib EXCEPT !.pc = "done", !.result = "True"]
             ELSE [ib EXCEPT !.pc = "create_engine"]
    /\ UNCHANGED << batchVars, sse, tr, ad >>

\* line 31; an error goes through lines 54-56 to the finally
InsertCreateEngine ==
    /\ ib # NoFrame
    /\ ib.pc = "create_engine"
    /\ \E out \in EngineOutcomes :
         ib' = IF out = "ok"
               THEN [ib EXCEPT !.pc = "connect", !.target_engine = "open"]
               ELSE [ib EXCEPT !.pc = "finally",
                               !.exc = <<EngineError("create_engine failed")>>]
    /\ UNCHANGED << batchVars, sse, tr, ad >>

\* line 34
InsertConnect ==
    /\ ib # NoFrame
    /\ ib.pc = "connect"
    /\ \E out \in EngineOutcomes :
         ib' = IF out = "ok"
               THEN [ib EXCEPT !.pc = "begin", !.connection = "open"]
               ELSE [ib EXCEPT !.pc = "finally",
                               !.exc = <<EngineError("connect failed")>>]
    /\ UNCHANGED << batchVars, sse, tr, ad >>

\* line 35; on an error the with of line 34 closes the connection
InsertBegin ==
    /\ ib # NoFrame
    /\ ib.pc = "begin"
    /\ \E out \in EngineOutcomes :
         ib' = IF out = "ok"
               THEN [ib EXCEPT !.pc = "reflect", !.transaction = "active"]
               ELSE [ib EXCEPT !.pc = "close",
                               !.exc = <<EngineError("begin failed")>>]
    /\ UNCHANGED << batchVars, sse, tr, ad >>

\* lines 42-43: table discovery
InsertReflect ==
    /\ ib # NoFrame
    /\ ib.pc = "reflect"
    /\ \E out \in EngineOutcomes :
         ib' = IF out = "ok"
               THEN [ib EXCEPT !.pc = "execute"]
               ELSE [ib EXCEPT !.pc = "rollback",
                               !.exc = <<EngineError("no such table")>>]
    /\ UNCHANGED << batchVars, sse, tr, ad >>

\* line 45: all rows are written inside the transaction, or the statement
\* fails on some row, the rows before it having been written
InsertExecute ==
    /\ ib # NoFrame
    /\ ib.pc = "execute"
    /\ \/ ib' = [ib EXCEPT !.pc = "commit", !.pending = ib.data,
                           !.executed = ib.data]
       \/ \E n \in 0 .. (Len(ib.data) - 1) :
            ib' = [ib EXCEPT !.pc = "rollback",
                             !.pending = SubSeq(ib.data, 1, n),
                             !.executed = SubSeq(ib.data, 1, n),
                             !.exc = <<EngineError("row failed")>>]
    /\ UNCHANGED << batchVars, sse, tr, ad >>

\* line 47
InsertCommit ==
    /\ ib # NoFrame
    /\ ib.pc = "commit"
    /\ \E out \in EngineOutcomes :
         ib' = IF out = "ok"
               THEN [ib EXCEPT !.pc = "close", !.table = ib.table \o ib.pending,
                               !.pending = <<>>, !.transaction = "committed"]
               ELSE [ib EXCEPT !.pc = "rollback",
                               !.exc = <<EngineError("commit failed")>>]
    /\ UNCHANGED << batchVars, sse, tr, ad >>

\* Variant of InsertRollback: the handler commits what was written.
InsertRollbackCommits ==
    /\ ib # NoFrame
    /\ ib.pc = "rollback"
    /\ ib' = [ib EXCEPT !.pc = "close", !.table = ib.table \o ib.pending,
                        !.pending = <<>>, !.transaction = "committed"]
    /\ UNCHANGED << batchVars, sse, tr, ad >>

\* lines 49-52; when the rollback itself raises, its error is the one that
\* leaves and the transaction is ended by the with of line 35
InsertRollback ==
    /\ ib # NoFrame
    /\ ib.pc = "rollback"
    /\ \E out \in EngineOutcomes :
         ib' = IF out = "ok"
               THEN [ib EXCEPT !.pc = "close", !.pending = <<>>,
                               !.transaction = "rolled_back"]
               ELSE [ib EXCEPT !.pc = "close",
                               !.exc = <<EngineError("rollback failed")>>]
    /\ UNCHANGED << batchVars, sse, tr, ad >>

\* the exits of the with blocks of lines 35 and 34: a transaction still
\* active is rolled back, the connection is closed
InsertClose ==
    /\ ib # NoFrame
    /\ ib.pc = "close"
    /\ ib' = [ib EXCEPT !.pc = "finally", !.connection = "closed",
                        !.pending = <<>>,
                        !.transaction = IF @ = "active" THEN "rolled_back" ELSE @]
    /\ UNCHANGED << batchVars, sse, tr, ad >>

\* lines 54-63
InsertFinally ==
    /\ ib # NoFrame
    /\ ib.pc = "finally"
    /\ ib' = [ib EXCEPT !.pc = "done",
                        !.target_engine = IF @ # "None" THEN "disposed" ELSE @,
                        !.result = IF ib.exc # <<>> THEN "raise" ELSE "True"]
    /\ UNCHANGED << batchVars, sse, tr, ad >>

NextInsert ==
    \/ InsertEntry
    \/ InsertCreateEngine
    \/ InsertConnect
    \/ InsertBegin
    \/ InsertReflect
    \/ InsertExecute
    \/ InsertCommit
    \/ InsertRollback
    \/ InsertClose
    \/ InsertFinally

SpecInsert == InitInsert /\ [][NextInsert]_vars

\* ------------------------------------------------------------------------
\* C19: at no moment does the destination show a part of the batch; a call
\* with a non-empty batch ends either with every row committed and True
\* returned, or with the destination as it was, the transaction rolled back
\* and an error raised; the engine the call created is disposed and its
\* connection closed when the call ends; a call with an empty batch returns
\* True without creating an engine or changing the destination.
\* ------------------------------------------------------------------------
C19_InsertBatchAllOrNothing ==
    ib # NoFrame =>
        /\ ib.table \in {ib.before, ib.before \o ib.data}
        /\ ib.pc = "done" =>
              /\ ib.pending = <<>>
              /\ ib.target_engine \in {"None", "disposed"}
              /\ ib.connection \in {"None", "closed"}
              /\ ib.target_engine = "None" => ib.connection = "None"
              /\ IF ib.data = <<>>
                 THEN /\ ib.result = "True"
                      /\ ib.table = ib.before
                      /\ ib.target_engine = "None"
                      /\ ib.connection = "None"
                 ELSE \/ /\ ib.result = "True"
                         /\ ib.exc = <<>>
                         /\ ib.table = ib.before \o ib.data
                         /\ ib.transaction = "committed"
                      \/ /\ ib.result = "raise"
                         /\ ib.exc # <<>>
                         /\ ib.table = ib.before
                         /\ ib.transaction \in {"None", "rolled_back"}

\* a batch of two rows whose second row failed after the first had been
\* written: nothing of it is in the destination, the engine is disposed
C19_Witness ==
    /\ ib # NoFrame
    /\ ib.pc = "done"
    /\ ib.result = "raise"
    /\ Len(ib.data) = 2
    /\ Len(ib.executed) = 1
    /\ ib.before # <<>>
    /\ ib.table = ib.before
    /\ ib.target_engine = "disposed"

\* ------------------------------------------------------------------------
\* One execution whose calls all return or raise: the request handler is
\* sequential code, so whenever a step is possible a step is taken.
\* ------------------------------------------------------------------------
SpecFair == Spec /\ WF_vars(Next)

\* line 160: every pass of the loop takes the count requested off
\* remaining_records, whatever the generator returned, and that count is
\* positive
C21_RemainingDecreases ==
    [][pc = "extend" =>
          /\ remaining_records' = remaining_records - GenCalls[Len(GenCalls)].req
          /\ remaining_records' < remaining_records
          /\ remaining_records' >= 0]_vars

\* the execution has returned without leaving its run in Started
C21_NoRunLeftStarted ==
    (Returned /\ RunCreated) => store[RunId].status \in {"Finished", "Failed"}

\* ------------------------------------------------------------------------
\* C21: every execution, its calls returning or raising, returns; each pass
\* of the chunk loop lowers remaining_records by the count requested; and
\* once an execution that committed a JobRun row has returned, the status of
\* that row is Finished or Failed.
\* ------------------------------------------------------------------------
C21_TerminatesLeavingNoRunStarted ==
    /\ <>Returned
    /\ C21_RemainingDecreases
    /\ []C21_NoRunLeftStarted

\* the parts of C21 about the loop
C21_LoopTerminates ==
    /\ <>Returned
    /\ C21_RemainingDecreases

==========================================================================
